---------------------------- MODULE Spec2Model ----------------------------
(***************************************************************************)
(* A model of github.com/eskriett/spell (spell.go): the symmetric-delete   *)
(* index, Lookup, Segment, Save/Load and the Speller-global counters.      *)
(*                                                                         *)
(* A string is the sequence of its code points.  The bytes of a string     *)
(* (used by the FNV-1a hash only) are its UTF-8 encoding.                  *)
(***************************************************************************)
EXTENDS Integers, Sequences, FiniteSets, TLC

(***************************************************************************)
(* Bounds of the model.                                                    *)
(***************************************************************************)
\* longest word (code points) passed to AddEntry / RemoveEntry
MaxWordLen == 3
\* longest input (code points) passed to Lookup
MaxInputLen == 3
\* largest Frequency of an entry passed to AddEntry
MaxFreq == 1
\* number of AddEntry / RemoveEntry calls in one behaviour
MaxOps == 2
\* largest EditDistance option passed to Lookup
MaxEd == 2
\* goroutines calling AddEntry concurrently, and the longest word they add
NumThreads == 2
MaxConcWordLen == 2
\* longest word given to AddEntry before Segment
MaxSegWordLen == 2
\* longest word and number of AddEntry and RemoveEntry calls where the calls
\* go to two dictionaries or are one more than MaxOps
MaxShortWordLen == 2
MaxDeepOps == 3

\* the code points words and inputs are made of: 'a', 'b'
Chars == {97, 98}
\* the space character, strings.Replace(part, " ", "", -1)
Space == 32

(***************************************************************************)
(* Program constants (spell.go:42-46).                                     *)
(***************************************************************************)
defaultDict == "default"
defaultEditDistance == 2
defaultPrefixLength == 7

LevelBest == 0
LevelClosest == 1
LevelAll == 2

\* a second dictionary name, DictionaryName("french") of the tests
frenchDict == "french"
DictNames == {defaultDict, frenchDict}

(***************************************************************************)
(* Small helpers (spell.go:919-958).                                       *)
(***************************************************************************)
abs(a) == IF a < 0 THEN -a ELSE a

max(a, b) == IF a > b THEN a ELSE b

min(a, b) == IF a < b THEN a ELSE b

\* addKey reports whether key was absent; the caller adds it to the set.
addKey(hash, key) == key \notin hash

(***************************************************************************)
(* Strings over a set of code points, by length.                           *)
(***************************************************************************)
RECURSIVE StringsOfLen(_, _)
StringsOfLen(cs, n) ==
    IF n = 0 THEN {<<>>}
    ELSE {Append(s, c) : s \in StringsOfLen(cs, n - 1), c \in cs}

StringsUpTo(cs, n) == UNION {StringsOfLen(cs, k) : k \in 0..n}

(***************************************************************************)
(* substring (spell.go:964-982): code-point indices [start, end).  The     *)
(* loop returns at the first index equal to end, with the start offset it  *)
(* has recorded so far (0 when start was not reached).                     *)
(***************************************************************************)
substring(s, start, end) ==
    IF start >= Len(s) THEN <<>>
    ELSE IF end >= 0 /\ end < Len(s)
         THEN LET startStrIdx == IF start >= 0 /\ start <= end THEN start ELSE 0
              IN  SubSeq(s, startStrIdx + 1, end)
         ELSE LET startStrIdx == IF start >= 0 THEN start ELSE 0
              IN  SubSeq(s, startStrIdx + 1, Len(s))

\* removeChar (spell.go:960-962)
removeChar(str, index) ==
    substring(str, 0, index) \o substring(str, index + 1, Len(str))

(***************************************************************************)
(* UTF-8 bytes of a string ([]byte(str)).                                  *)
(***************************************************************************)
UTF8Rune(c) ==
    IF c < 128 THEN <<c>>
    ELSE IF c < 2048 THEN <<192 + (c \div 64), 128 + (c % 64)>>
    ELSE IF c < 65536
         THEN <<224 + (c \div 4096), 128 + ((c \div 64) % 64), 128 + (c % 64)>>
         ELSE <<240 + (c \div 262144), 128 + ((c \div 4096) % 64),
                128 + ((c \div 64) % 64), 128 + (c % 64)>>

RECURSIVE UTF8(_)
UTF8(s) == IF s = <<>> THEN <<>> ELSE UTF8Rune(Head(s)) \o UTF8(Tail(s))

(***************************************************************************)
(* getStringHash (spell.go:936-944): FNV-1a, 32 bits.  A uint32 is kept as *)
(* <<high 16 bits, low 16 bits>>; the multiplication by 16777619 =         *)
(* 2^24 + 403 wraps at 2^32.                                               *)
(***************************************************************************)
RECURSIVE XorBits(_, _, _)
XorBits(x, y, n) ==
    IF n = 0 THEN 0
    ELSE (((x % 2) + (y % 2)) % 2) + 2 * XorBits(x \div 2, y \div 2, n - 1)

FNVStep(h, c) ==
    LET lo == (h[2] - (h[2] % 256)) + XorBits(h[2] % 256, c, 8)
        hi == h[1]
        p  == lo * 403
    IN  <<(hi * 403 + (p \div 65536) + (lo % 256) * 256) % 65536, p % 65536>>

RECURSIVE FNVFold(_, _)
FNVFold(h, bytes) ==
    IF bytes = <<>> THEN h ELSE FNVFold(FNVStep(h, Head(bytes)), Tail(bytes))

\* 2166136261 = 33052 * 65536 + 40389
FNVOffset == <<33052, 40389>>

FNVHash(str) == FNVFold(FNVOffset, UTF8(str))

\* every string the model hashes: words, inputs and their deletes
HashedStrings == StringsUpTo(Chars, max(MaxWordLen, MaxInputLen))

HashTable == [s \in HashedStrings |-> FNVHash(s)]

getStringHash(str) == IF str \in HashedStrings THEN HashTable[str] ELSE FNVHash(str)

(***************************************************************************)
(* uint64 arithmetic for cumulativeFreq (sync/atomic.AddUint64).  A uint64 *)
(* is kept as four 16-bit limbs, least significant first, so that the sum  *)
(* wraps at 2^64 and ^(x - 1) is the two's complement of x.                *)
(***************************************************************************)
U64Zero == <<0, 0, 0, 0>>

U64Ones == <<65535, 65535, 65535, 65535>>

U64FromNat(n) == <<n % 65536, (n \div 65536) % 65536, 0, 0>>

U64Add(a, b) ==
    LET s1 == a[1] + b[1]
        s2 == a[2] + b[2] + (s1 \div 65536)
        s3 == a[3] + b[3] + (s2 \div 65536)
        s4 == a[4] + b[4] + (s3 \div 65536)
    IN  <<s1 % 65536, s2 % 65536, s3 % 65536, s4 % 65536>>

\* ^x : bitwise complement
U64Not(a) == <<65535 - a[1], 65535 - a[2], 65535 - a[3], 65535 - a[4]>>

\* float64(x) for the values the model reaches (below 2^31)
U64ToNat(a) == a[1] + 65536 * a[2]

(***************************************************************************)
(* The default distance function, strmet.DamerauLevenshteinRunes           *)
(* (spell.go:319, contract at spell.go:357-359): the edit distance with    *)
(* adjacent transpositions, or -1 when it exceeds maxDist.                 *)
(***************************************************************************)
RECURSIVE DLRow(_, _, _, _, _, _)
\* cells j..Len(b) of row i appended to cur; prev is row i-1, pprev row i-2
DLRow(a, b, i, cur, prev, pprev) ==
    LET j == Len(cur)
    IN  IF j > Len(b) THEN cur
        ELSE LET cost == IF a[i] = b[j] THEN 0 ELSE 1
                 sub  == prev[j] + cost
                 del  == prev[j + 1] + 1
                 ins  == cur[j] + 1
                 best == min(sub, min(del, ins))
                 tr   == IF i > 1 /\ j > 1 /\ a[i] = b[j - 1] /\ a[i - 1] = b[j]
                         THEN min(best, pprev[j - 1] + 1)
                         ELSE best
             IN  DLRow(a, b, i, Append(cur, tr), prev, pprev)

RECURSIVE DLRows(_, _, _, _, _)
DLRows(a, b, i, prev, pprev) ==
    IF i > Len(a) THEN prev[Len(b) + 1]
    ELSE DLRows(a, b, i + 1, DLRow(a, b, i, <<i>>, prev, pprev), prev)

DLDistance(a, b) == DLRows(a, b, 1, [j \in 1..(Len(b) + 1) |-> j - 1], <<>>)

DLInputs == StringsUpTo(Chars, MaxInputLen)

DLWords == StringsUpTo(Chars, MaxWordLen)

DLTable == [a \in DLInputs |-> [b \in DLWords |-> DLDistance(a, b)]]

DamerauLevenshteinRunes(r1, r2, maxDist) ==
    LET d == IF r1 \in DLInputs /\ r2 \in DLWords THEN DLTable[r1][r2]
             ELSE DLDistance(r1, r2)
    IN  IF d > maxDist THEN -1 ELSE d

(***************************************************************************)
(* The state of one Speller (type Spell, spell.go:49-61).                  *)
(*   library            dictionary name -> word -> Entry; a dictionary is  *)
(*                      created by the first store into it                 *)
(*   dictionaryDeletes  dictionary name -> hash -> sequence of deleteEntry *)
(*   cumulativeFreq     uint64                                             *)
(*   longestWord        uint32                                             *)
(* ret is what the last completed call was given and what it returned,     *)
(* nCalls counts the AddEntry / RemoveEntry calls made so far, and         *)
(* removedWords holds the <<dictionary, word>> pairs RemoveEntry was       *)
(* called on with no AddEntry of that word to that dictionary since.       *)
(* threads holds, for each goroutine that calls AddEntry concurrently,     *)
(* where it is in the call and the locals of the call.                     *)
(***************************************************************************)
VARIABLES MaxEditDistance, PrefixLength, cumulativeFreq, dictionaryDeletes,
          longestWord, library, ret, nCalls, removedWords, threads

vars == <<MaxEditDistance, PrefixLength, cumulativeFreq, dictionaryDeletes,
          longestWord, library, ret, nCalls, removedWords, threads>>

\* The Speller as one value, for the operations below.
Self ==
    [MaxEditDistance |-> MaxEditDistance, PrefixLength |-> PrefixLength,
     cumulativeFreq |-> cumulativeFreq, dictionaryDeletes |-> dictionaryDeletes,
     longestWord |-> longestWord, library |-> library]

EmptyMap == [x \in {} |-> x]

\* New (spell.go:74-83)
New ==
    [MaxEditDistance |-> defaultEditDistance, PrefixLength |-> defaultPrefixLength,
     cumulativeFreq |-> U64Zero, dictionaryDeletes |-> EmptyMap,
     longestWord |-> 0, library |-> EmptyMap]

\* The zero value of Entry (spell.go:67-71); WordData is a set of <<key, value>>.
ZeroEntry == [Frequency |-> 0, Word |-> <<>>, WordData |-> {}]

(***************************************************************************)
(* library (spell.go:870-917)                                              *)
(***************************************************************************)
\* load: the definition and whether the word exists
libraryLoad(l, dict, word) ==
    IF dict \in DOMAIN l /\ word \in DOMAIN l[dict]
    THEN [definition |-> l[dict][word], exists |-> TRUE]
    ELSE [definition |-> ZeroEntry, exists |-> FALSE]

\* store that leaves the definition of a word already stored as it is
libraryStoreOnce(l, dict, word, definition) ==
    LET d == IF dict \in DOMAIN l THEN l[dict] ELSE EmptyMap
    IN  [n \in DOMAIN l \cup {dict} |->
            IF n = dict
            THEN [w \in DOMAIN d \cup {word} |-> IF w \in DOMAIN d THEN d[w] ELSE definition]
            ELSE l[n]]

libraryStore(l, dict, word, definition) ==
    LET d == IF dict \in DOMAIN l THEN l[dict] ELSE EmptyMap
    IN  [n \in DOMAIN l \cup {dict} |->
            IF n = dict
            THEN [w \in DOMAIN d \cup {word} |-> IF w = word THEN definition ELSE d[w]]
            ELSE l[n]]

\* remove that reports a removal whether the word existed or not
libraryRemoveSaysRemoved(l, dict, word) ==
    IF dict \in DOMAIN l /\ word \in DOMAIN l[dict]
    THEN [l |-> [l EXCEPT ![dict] = [w \in DOMAIN l[dict] \ {word} |-> l[dict][w]]],
          removed |-> TRUE]
    ELSE [l |-> l, removed |-> TRUE]

\* remove that reports the removal and leaves the word in the dictionary
libraryRemoveKeeps(l, dict, word) ==
    [l |-> l, removed |-> dict \in DOMAIN l /\ word \in DOMAIN l[dict]]

\* remove: the library afterwards and whether the word existed
libraryRemove(l, dict, word) ==
    IF dict \in DOMAIN l /\ word \in DOMAIN l[dict]
    THEN [l |-> [l EXCEPT ![dict] = [w \in DOMAIN l[dict] \ {word} |-> l[dict][w]]],
          removed |-> TRUE]
    ELSE [l |-> l, removed |-> FALSE]

(***************************************************************************)
(* dictionaryDeletes (spell.go:834-868)                                    *)
(***************************************************************************)
dictionaryDeletesLoad(dd, dict, key) ==
    IF dict \in DOMAIN dd /\ key \in DOMAIN dd[dict]
    THEN [entry |-> dd[dict][key], exists |-> TRUE]
    ELSE [entry |-> <<>>, exists |-> FALSE]

\* an add that files nothing in a bucket that is there already
dictionaryDeletesAddOnce(dd, dict, key, entry) ==
    LET d == IF dict \in DOMAIN dd THEN dd[dict] ELSE EmptyMap
    IN  [n \in DOMAIN dd \cup {dict} |->
            IF n = dict
            THEN [k \in DOMAIN d \cup {key} |->
                     IF k \in DOMAIN d THEN d[k] ELSE <<entry>>]
            ELSE dd[n]]

dictionaryDeletesAdd(dd, dict, key, entry) ==
    LET d == IF dict \in DOMAIN dd THEN dd[dict] ELSE EmptyMap
        old == IF key \in DOMAIN d THEN d[key] ELSE <<>>
    IN  [n \in DOMAIN dd \cup {dict} |->
            IF n = dict
            THEN [k \in DOMAIN d \cup {key} |-> IF k = key THEN Append(old, entry) ELSE d[k]]
            ELSE dd[n]]

(***************************************************************************)
(* generateDeletes / getDeletes (spell.go:796-832).  deletes is the set of *)
(* hashes collected so far; the loop over i and the recursion share it.    *)
(***************************************************************************)
RECURSIVE generateDeletes(_, _, _, _)
RECURSIVE generateDeletesLoop(_, _, _, _, _)
\* the body of the for loop from index i on; editDistance is already incremented
generateDeletesLoop(s, word, editDistance, i, deletes) ==
    IF i >= Len(word) THEN deletes
    ELSE LET deleteWord == removeChar(word, i)
             deleteHash == getStringHash(deleteWord)
         IN  IF deleteHash \in deletes
             THEN generateDeletesLoop(s, word, editDistance, i + 1, deletes)
             ELSE LET d1 == deletes \cup {deleteHash}
                      d2 == IF editDistance < s.MaxEditDistance
                            THEN generateDeletes(s, deleteWord, editDistance, d1)
                            ELSE d1
                  IN  generateDeletesLoop(s, word, editDistance, i + 1, d2)

\* editDistance++ on entry; nothing is deleted from a word of one code point
generateDeletes(s, word, editDistance, deletes) ==
    IF Len(word) > 1
    THEN generateDeletesLoop(s, word, editDistance + 1, 0, deletes)
    ELSE deletes

getDeletes(s, word) ==
    LET w == IF Len(word) > s.PrefixLength THEN substring(word, 0, s.PrefixLength)
             ELSE word
    IN  generateDeletes(s, w, 0, {getStringHash(w)})

(***************************************************************************)
(* AddEntry (spell.go:170-216), as one step.  The deletes are hashes of    *)
(* distinct buckets, so the order in which the map is ranged over does not *)
(* change the result.                                                      *)
(***************************************************************************)
RECURSIVE addDeletes(_, _, _, _)
addDeletes(dd, dict, deletes, de) ==
    IF deletes = {} THEN dd
    ELSE LET h == CHOOSE x \in deletes : TRUE
         IN  addDeletes(dictionaryDeletesAdd(dd, dict, h, de), dict, deletes \ {h}, de)

\* the deleteEntry of a word (spell.go:205-209)
deleteEntry(word) == [len |-> Len(word), runes |-> word, str |-> word]

\* atomic.AddUint64(&s.cumulativeFreq, ^(de.Frequency - 1))
undoFrequency(cf, freq) == U64Add(cf, U64Not(U64Add(U64FromNat(freq), U64Ones)))

\* the longest word kept after adding a word of wordLength code points
newLongestWord(cur, wordLength) == IF wordLength > cur THEN wordLength ELSE cur

\* the Speller after the call and the value returned
AddEntryOp(s, de, dict) ==
    LET word == de.Word
        cf1  == U64Add(s.cumulativeFreq, U64FromNat(de.Frequency))
    IN  IF libraryLoad(s.library, dict, word).exists
        THEN [s |-> [s EXCEPT !.cumulativeFreq = undoFrequency(cf1, de.Frequency),
                              !.library = libraryStore(s.library, dict, word, de)],
              added |-> FALSE]
        ELSE [s |-> [s EXCEPT !.cumulativeFreq = cf1,
                              !.library = libraryStore(s.library, dict, word, de),
                              !.longestWord = newLongestWord(s.longestWord, Len(word)),
                              !.dictionaryDeletes =
                                  addDeletes(s.dictionaryDeletes, dict,
                                             getDeletes(s, word), deleteEntry(word))],
              added |-> TRUE]

\* RemoveEntry (spell.go:242-252)
RemoveEntryOp(s, word, dict) ==
    LET r == libraryRemove(s.library, dict, word)
    IN  [s |-> [s EXCEPT !.library = r.l], removed |-> r.removed]

\* GetEntry (spell.go:220-233): the entry, or nil
GetEntryOp(s, word, dict) == libraryLoad(s.library, dict, word)

(***************************************************************************)
(* Lookup options (spell.go:307-405).  opts holds, for each option, the    *)
(* value given or NotGiven; an option not given keeps its default.         *)
(***************************************************************************)
NotGiven == -1

NoName == "(not given)"

NoOptions ==
    [EditDistance |-> NotGiven, PrefixLength |-> NotGiven,
     SuggestionLevel |-> NotGiven, DictionaryName |-> NoName]

defaultLookupParams(s) ==
    [dictOpts |-> defaultDict, editDistance |-> s.MaxEditDistance,
     prefixLength |-> s.PrefixLength, suggestionLevel |-> LevelBest]

\* PrefixLength(0) is the one option that returns an error
lookupOptsError(opts) == opts.PrefixLength # NotGiven /\ opts.PrefixLength < 1

\* the parameters of a Lookup that takes no notice of the EditDistance option
lookupParamsKeepsDistance(s, opts) ==
    LET d == defaultLookupParams(s)
    IN  [dictOpts |-> IF opts.DictionaryName # NoName THEN opts.DictionaryName
                      ELSE d.dictOpts,
         editDistance |-> d.editDistance,
         prefixLength |-> IF opts.PrefixLength # NotGiven THEN opts.PrefixLength
                          ELSE d.prefixLength,
         suggestionLevel |-> IF opts.SuggestionLevel # NotGiven
                             THEN opts.SuggestionLevel ELSE d.suggestionLevel]

lookupParams(s, opts) ==
    LET d == defaultLookupParams(s)
    IN  [dictOpts |-> IF opts.DictionaryName # NoName THEN opts.DictionaryName
                      ELSE d.dictOpts,
         editDistance |-> IF opts.EditDistance # NotGiven THEN opts.EditDistance
                          ELSE d.editDistance,
         prefixLength |-> IF opts.PrefixLength # NotGiven THEN opts.PrefixLength
                          ELSE d.prefixLength,
         suggestionLevel |-> IF opts.SuggestionLevel # NotGiven
                             THEN opts.SuggestionLevel ELSE d.suggestionLevel]

\* newDictSuggestion (spell.go:407-414): the entry loaded, found or not
newDictSuggestion(s, input, dist, dict) ==
    [Distance |-> dist, Entry |-> libraryLoad(s.library, dict, input).definition]

\* strings.Contains(input, str) for str of one code point
containsRune(input, str) == \E k \in 1..Len(input) : input[k] = str[1]

(***************************************************************************)
(* The default sort function (spell.go:322-335): sort.Slice with           *)
(* less = lower Distance, then higher Frequency.  For fewer than 12        *)
(* elements sort.Slice is an insertion sort.                               *)
(***************************************************************************)
\* a comparison by distance alone
sortLessByDistance(s1, s2) == s1.Distance < s2.Distance

sortLess(s1, s2) ==
    IF s1.Distance < s2.Distance THEN TRUE
    ELSE IF s1.Distance = s2.Distance THEN s1.Entry.Frequency > s2.Entry.Frequency
    ELSE FALSE

RECURSIVE insertSorted(_, _)
\* x moved down from the end of sorted while it is less than its predecessor
insertSorted(sorted, x) ==
    IF sorted = <<>> THEN <<x>>
    ELSE IF sortLess(x, sorted[Len(sorted)])
         THEN Append(insertSorted(SubSeq(sorted, 1, Len(sorted) - 1), x),
                     sorted[Len(sorted)])
         ELSE Append(sorted, x)

RECURSIVE sortFuncFrom(_, _, _)
sortFuncFrom(results, k, acc) ==
    IF k > Len(results) THEN acc
    ELSE sortFuncFrom(results, k + 1, insertSorted(acc, results[k]))

sortFunc(results) == sortFuncFrom(results, 1, <<>>)

(***************************************************************************)
(* Lookup (spell.go:422-604).  st is the loop state: results,              *)
(* editDistance, consideredSuggestions, consideredDeletes, candidates.     *)
(* p is what does not change: input, dict, prefixLength, suggestionLevel,  *)
(* inputLen, inputPrefixLen.                                               *)
(***************************************************************************)
\* spell.go:551-578: whether and how the suggestion is added to the results
incorporate(s, p, st, suggestion, dist) ==
    IF dist > st.editDistance THEN st
    ELSE IF Len(st.results) > 0 /\ p.suggestionLevel = LevelBest
    THEN LET entry == libraryLoad(s.library, p.dict, suggestion.str).definition
             curFreq == entry.Frequency
             closestFreq == st.results[1].Entry.Frequency
         IN  IF dist < st.editDistance \/ curFreq > closestFreq
             THEN [st EXCEPT !.editDistance = dist,
                             !.results = [st.results EXCEPT ![1] =
                                 newDictSuggestion(s, suggestion.str, dist, p.dict)]]
             ELSE st
    ELSE LET kept == IF Len(st.results) > 0 /\ p.suggestionLevel = LevelClosest
                        /\ dist < st.editDistance
                     THEN <<>> ELSE st.results
         IN  [st EXCEPT !.editDistance = IF p.suggestionLevel # LevelAll THEN dist
                                         ELSE st.editDistance,
                        !.results = Append(kept,
                                 newDictSuggestion(s, suggestion.str, dist, p.dict))]

\* spell.go:484-579: one suggestion of the candidate's bucket
lookupSuggestion(s, p, st, candidate, suggestion) ==
    LET suggestionLen == suggestion.len
        candidateLen == Len(candidate)
        suggPrefixLen == min(suggestionLen, p.prefixLength)
        seen == [st EXCEPT !.consideredSuggestions = @ \cup {suggestion.str}]
    IN  IF suggestion.str = p.input THEN st
        ELSE IF \/ abs(suggestionLen - p.inputLen) > st.editDistance
                \/ suggestionLen < candidateLen
                \/ (suggestionLen = candidateLen /\ suggestion.str # candidate)
        THEN st
        ELSE IF suggPrefixLen > p.inputPrefixLen
                /\ (suggPrefixLen - candidateLen) > st.editDistance
        THEN st
        ELSE IF candidateLen = 0
        THEN LET dist == max(p.inputLen, suggestionLen)
             IN  IF dist > st.editDistance THEN st
                 ELSE IF ~addKey(st.consideredSuggestions, suggestion.str) THEN st
                 ELSE incorporate(s, p, seen, suggestion, dist)
        ELSE IF suggestionLen = 1
        THEN LET dist == IF containsRune(p.input, suggestion.str)
                         THEN p.inputLen - 1 ELSE p.inputLen
             IN  IF dist > st.editDistance THEN st
                 ELSE IF ~addKey(st.consideredSuggestions, suggestion.str) THEN st
                 ELSE incorporate(s, p, seen, suggestion, dist)
        ELSE IF ~addKey(st.consideredSuggestions, suggestion.str) THEN st
        ELSE LET dist == DamerauLevenshteinRunes(p.input, suggestion.runes,
                                                 st.editDistance)
             IN  IF dist < 1 THEN seen
                 ELSE incorporate(s, p, seen, suggestion, dist)

RECURSIVE lookupBucket(_, _, _, _, _, _)
\* the suggestions of the bucket from index k on
lookupBucket(s, p, st, candidate, suggestions, k) ==
    IF k > Len(suggestions) THEN st
    ELSE lookupBucket(s, p, lookupSuggestion(s, p, st, candidate, suggestions[k]),
                      candidate, suggestions, k + 1)

RECURSIVE lookupExpand(_, _, _)
\* spell.go:590-596: the deletes of the candidate from index i on
lookupExpand(st, candidate, i) ==
    IF i >= Len(candidate) THEN st
    ELSE LET deleteWord == removeChar(candidate, i)
         IN  IF addKey(st.consideredDeletes, deleteWord)
             THEN lookupExpand([st EXCEPT !.consideredDeletes = @ \cup {deleteWord},
                                          !.candidates = Append(@, deleteWord)],
                               candidate, i + 1)
             ELSE lookupExpand(st, candidate, i + 1)

RECURSIVE lookupCandidates(_, _, _, _)
\* spell.go:468-598: the candidates from index i (from 1) on
lookupCandidates(s, p, st, i) ==
    IF i > Len(st.candidates) THEN st
    ELSE LET candidate == st.candidates[i]
             candidateLen == Len(candidate)
             lengthDiff == p.inputPrefixLen - candidateLen
         IN  IF lengthDiff > st.editDistance
             THEN IF p.suggestionLevel = LevelAll
                  THEN lookupCandidates(s, p, st, i + 1)
                  ELSE st
             ELSE LET b == dictionaryDeletesLoad(s.dictionaryDeletes, p.dict,
                                                 getStringHash(candidate))
                      st1 == IF b.exists
                             THEN lookupBucket(s, p, st, candidate, b.entry, 1)
                             ELSE st
                      st2 == IF lengthDiff < st1.editDistance
                                /\ candidateLen <= p.prefixLength
                             THEN IF p.suggestionLevel # LevelAll
                                     /\ lengthDiff > st1.editDistance
                                  THEN st1
                                  ELSE lookupExpand(st1, candidate, 0)
                             ELSE st1
                  IN  lookupCandidates(s, p, st2, i + 1)

\* a Lookup that goes on to the candidates after an exact match
returnsExactNever(exists, suggestionLevel) == FALSE

\* spell.go:435-441
returnsExact(exists, suggestionLevel) == exists /\ suggestionLevel # LevelAll

\* the suggestions Lookup returns; err is TRUE when an option is refused
LookupOp(s, input, opts) ==
    IF lookupOptsError(opts) THEN [results |-> <<>>, err |-> TRUE]
    ELSE
    LET lp == lookupParams(s, opts)
        dict == lp.dictOpts
        exists == libraryLoad(s.library, dict, input).exists
        results0 == IF exists THEN <<newDictSuggestion(s, input, 0, dict)>> ELSE <<>>
        inputLen == Len(input)
        inputPrefixLen == min(inputLen, lp.prefixLength)
        p == [input |-> input, dict |-> dict, prefixLength |-> lp.prefixLength,
              suggestionLevel |-> lp.suggestionLevel, inputLen |-> inputLen,
              inputPrefixLen |-> inputPrefixLen]
        st0 == [results |-> results0, editDistance |-> lp.editDistance,
                consideredSuggestions |-> {input}, consideredDeletes |-> {},
                candidates |-> <<substring(input, 0, inputPrefixLen)>>]
    IN  IF returnsExact(exists, lp.suggestionLevel)
        THEN [results |-> results0, err |-> FALSE]
        ELSE IF lp.editDistance = 0
        THEN [results |-> results0, err |-> FALSE]
        ELSE [results |-> sortFunc(lookupCandidates(s, p, st0, 1).results),
              err |-> FALSE]

(***************************************************************************)
(* The calls of the model.                                                 *)
(***************************************************************************)
Words == StringsUpTo(Chars, MaxWordLen)

Inputs == StringsUpTo(Chars, MaxInputLen)

Freqs == 0..MaxFreq

\* the entries given to AddEntry
Entries == [Frequency : Freqs, Word : Words, WordData : {{}}]

\* the options given to Lookup: each of EditDistance and SuggestionLevel
\* given or not, and the refused PrefixLength(0)
LookupOptions ==
    [EditDistance : {NotGiven} \cup (0..MaxEd), PrefixLength : {NotGiven},
     SuggestionLevel : {NotGiven, LevelClosest, LevelAll},
     DictionaryName : {NoName}]
    \cup {[NoOptions EXCEPT !.PrefixLength = 0]}

NoCall == [op |-> "none"]

\* the goroutines of the concurrent specification
Threads == 1..NumThreads

\* a goroutine that has not called AddEntry yet
Idle == [pc |-> "idle", de |-> ZeroEntry, dict |-> defaultDict, deletes |-> {},
         added |-> FALSE]

Init ==
    /\ MaxEditDistance = New.MaxEditDistance
    /\ PrefixLength = New.PrefixLength
    /\ cumulativeFreq = New.cumulativeFreq
    /\ dictionaryDeletes = New.dictionaryDeletes
    /\ longestWord = New.longestWord
    /\ library = New.library
    /\ ret = NoCall
    /\ nCalls = 0
    /\ removedWords = {}
    /\ threads = [t \in Threads |-> Idle]

\* the Speller becomes s
Becomes(s) ==
    /\ MaxEditDistance' = s.MaxEditDistance
    /\ PrefixLength' = s.PrefixLength
    /\ cumulativeFreq' = s.cumulativeFreq
    /\ dictionaryDeletes' = s.dictionaryDeletes
    /\ longestWord' = s.longestWord
    /\ library' = s.library

\* A call that reads only (Lookup, Segment, GetEntry) leaves the Speller as it
\* is: what follows it is what follows without it, so the model makes no call
\* after one.
Running == ret.op \in {"none", "AddEntry", "RemoveEntry"}

\* AddEntry, however many calls came before
AddEntryCall(de, dict) ==
    /\ Running
    /\ LET r == AddEntryOp(Self, de, dict)
       IN  /\ Becomes(r.s)
           /\ ret' = [op |-> "AddEntry", de |-> de, dict |-> dict, added |-> r.added]
    /\ nCalls' = nCalls + 1
    /\ removedWords' = removedWords \ {<<dict, de.Word>>}
    /\ UNCHANGED threads

AddEntry(de, dict) == nCalls < MaxOps /\ AddEntryCall(de, dict)

\* RemoveEntry, however many calls came before
RemoveEntryCall(word, dict) ==
    /\ Running
    /\ LET r == RemoveEntryOp(Self, word, dict)
       IN  /\ Becomes(r.s)
           /\ ret' = [op |-> "RemoveEntry", word |-> word, dict |-> dict,
                      removed |-> r.removed]
    /\ nCalls' = nCalls + 1
    /\ removedWords' = removedWords \cup {<<dict, word>>}
    /\ UNCHANGED threads

RemoveEntry(word, dict) == nCalls < MaxOps /\ RemoveEntryCall(word, dict)

GetEntry(word, dict) ==
    /\ Running
    /\ LET r == GetEntryOp(Self, word, dict)
       IN  ret' = [op |-> "GetEntry", word |-> word, dict |-> dict,
                   entry |-> r.definition, exists |-> r.exists]
    /\ UNCHANGED <<MaxEditDistance, PrefixLength, cumulativeFreq, dictionaryDeletes,
                   longestWord, library, nCalls, removedWords, threads>>

Lookup(input, opts) ==
    /\ Running
    /\ LET r == LookupOp(Self, input, opts)
       IN  ret' = [op |-> "Lookup", input |-> input, opts |-> opts,
                   results |-> r.results, err |-> r.err]
    /\ UNCHANGED <<MaxEditDistance, PrefixLength, cumulativeFreq, dictionaryDeletes,
                   longestWord, library, nCalls, removedWords, threads>>

Next ==
    \/ \E de \in Entries : AddEntry(de, defaultDict)
    \/ \E word \in Words : RemoveEntry(word, defaultDict)
    \/ \E input \in Inputs, opts \in LookupOptions : Lookup(input, opts)

Spec == Init /\ [][Next]_vars

(***************************************************************************)
(* Definitions the properties below are stated with.                       *)
(***************************************************************************)
\* the words stored in dictionary dict
Stored(dict) == IF dict \in DOMAIN library THEN DOMAIN library[dict] ELSE {}

\* the words that have a deleteEntry in dictionary dict: every word ever added
EverAdded(dict) ==
    IF dict \in DOMAIN dictionaryDeletes
    THEN UNION {{dictionaryDeletes[dict][h][k].str :
                     k \in 1..Len(dictionaryDeletes[dict][h])} :
                h \in DOMAIN dictionaryDeletes[dict]}
    ELSE {}

\* the last call was a Lookup that returned suggestions (no option refused)
Looked == ret.op = "Lookup" /\ ~ret.err

\* the parameters of the last Lookup
LookedParams == lookupParams(Self, ret.opts)

\* the words of the suggestions returned
ResultWords == {ret.results[k].Entry.Word : k \in 1..Len(ret.results)}

\* the strings one code-point deletion, insertion or substitution away from w
OneEdit(w) ==
    ({removeChar(w, i) : i \in 0..(Len(w) - 1)}
     \cup {SubSeq(w, 1, i) \o <<c>> \o SubSeq(w, i + 1, Len(w)) :
               i \in 0..Len(w), c \in Chars}
     \cup {[w EXCEPT ![i] = c] : i \in 1..Len(w), c \in Chars}) \ {w}

\* the edit distance between the input of the last Lookup and w
InputDistance(w) == DLDistance(ret.input, w)

\* the stored words within the edit distance asked for
WithinBudget ==
    {w \in Stored(LookedParams.dictOpts) : InputDistance(w) <= LookedParams.editDistance}

(***************************************************************************)
(* C1: every stored word one code-point deletion, insertion or             *)
(* substitution away from the input is among the suggestions of a Lookup   *)
(* with edit distance >= 1 and level All, whatever the length of the word. *)
(***************************************************************************)
C1_OneEditFound ==
    (Looked /\ LookedParams.suggestionLevel = LevelAll
            /\ LookedParams.editDistance >= 1)
    => \A w \in Stored(LookedParams.dictOpts) :
           ret.input \in OneEdit(w) => w \in ResultWords

(***************************************************************************)
(* C2: when the input is not stored, Lookup with level Best returns at     *)
(* most one suggestion, and the one it returns is the stored word of       *)
(* lowest edit distance within the budget, the highest frequency among     *)
(* those at that distance.                                                 *)
(***************************************************************************)
IsBestSuggestion(r) ==
    /\ r.Entry.Word \in WithinBudget
    /\ r.Distance = InputDistance(r.Entry.Word)
    /\ \A w \in WithinBudget :
           \/ r.Distance < InputDistance(w)
           \/ /\ r.Distance = InputDistance(w)
              /\ r.Entry.Frequency >= library[LookedParams.dictOpts][w].Frequency

C2_BestIsLowestThenMostFrequent ==
    (Looked /\ LookedParams.suggestionLevel = LevelBest
            /\ ret.input \notin Stored(LookedParams.dictOpts))
    => /\ Len(ret.results) <= 1
       /\ Len(ret.results) = 1 => IsBestSuggestion(ret.results[1])

(***************************************************************************)
(* C4: every suggestion Lookup returns carries the word and the entry of   *)
(* a word stored in the dictionary at the call: nothing is returned from   *)
(* the delete records of a removed word.                                   *)
(***************************************************************************)
C4_SuggestionsAreStored ==
    Looked => \A k \in 1..Len(ret.results) :
                  /\ ret.results[k].Entry.Word \in Stored(LookedParams.dictOpts)
                  /\ ret.results[k].Entry =
                         library[LookedParams.dictOpts][ret.results[k].Entry.Word]

(***************************************************************************)
(* C9: Lookup of a stored word with no options returns exactly one         *)
(* suggestion: that word, at distance 0, with its stored entry.            *)
(***************************************************************************)
C9_StoredWordLooksUpItself ==
    (Looked /\ ret.opts = NoOptions /\ ret.input \in Stored(defaultDict))
    => ret.results = <<[Distance |-> 0, Entry |-> library[defaultDict][ret.input]]>>

\* a stored word looked up with no options while a second word, one edit
\* away from it, is stored as well
C9_Witness ==
    /\ Looked /\ ret.opts = NoOptions /\ ret.input \in Stored(defaultDict)
    /\ \E w \in Stored(defaultDict) : ret.input \in OneEdit(w)
    /\ Len(ret.results) = 1 /\ ret.results[1].Distance = 0

(***************************************************************************)
(* C10: after RemoveEntry(w), and no AddEntry of w since, Lookup(w)        *)
(* returns no suggestion with word w, for every edit distance and level;   *)
(* it returns nothing when w is the only word ever added.                  *)
(***************************************************************************)
C10_RemovedWordNotSuggested ==
    (Looked /\ <<LookedParams.dictOpts, ret.input>> \in removedWords)
    => /\ ret.input \notin ResultWords
       /\ EverAdded(LookedParams.dictOpts) \subseteq {ret.input} => ret.results = <<>>

\* a word added, removed and looked up
C10_Witness ==
    /\ Looked /\ <<LookedParams.dictOpts, ret.input>> \in removedWords
    /\ EverAdded(LookedParams.dictOpts) = {ret.input}
    /\ LookedParams.editDistance >= 1
    /\ ret.results = <<>>

(***************************************************************************)
(* AddEntry calls only, to either dictionary.                              *)
(***************************************************************************)
NextAdd == \E de \in Entries, dict \in DictNames : AddEntry(de, dict)

SpecAdd == Init /\ [][NextAdd]_vars

(***************************************************************************)
(* AddEntry (spell.go:170-216) called by several goroutines on one         *)
(* Speller.  A step is one atomic operation or one access under the lock   *)
(* of the library or of the delete index; each goroutine makes one call.   *)
(***************************************************************************)
ConcWords == StringsUpTo(Chars, MaxConcWordLen)

ConcEntries == [Frequency : Freqs, Word : ConcWords, WordData : {{}}]

\* everything but the Speller fields a step writes and threads
ConcUnchanged == UNCHANGED <<MaxEditDistance, PrefixLength, ret, nCalls, removedWords>>

\* spell.go:181: atomic.AddUint64(&s.cumulativeFreq, de.Frequency)
ConcAddFrequency(t, de, dict) ==
    /\ threads[t].pc = "idle"
    /\ cumulativeFreq' = U64Add(cumulativeFreq, U64FromNat(de.Frequency))
    /\ threads' = [threads EXCEPT ![t] = [@ EXCEPT !.pc = "load", !.de = de,
                                                    !.dict = dict]]
    /\ UNCHANGED <<dictionaryDeletes, longestWord, library>>
    /\ ConcUnchanged

\* spell.go:185: s.library.load
ConcLoad(t) ==
    /\ threads[t].pc = "load"
    /\ threads' = [threads EXCEPT ![t].pc =
           IF libraryLoad(library, threads[t].dict, threads[t].de.Word).exists
           THEN "undo" ELSE "store"]
    /\ UNCHANGED <<cumulativeFreq, dictionaryDeletes, longestWord, library>>
    /\ ConcUnchanged

\* spell.go:186: atomic.AddUint64(&s.cumulativeFreq, ^(de.Frequency - 1))
ConcUndo(t) ==
    /\ threads[t].pc = "undo"
    /\ cumulativeFreq' = undoFrequency(cumulativeFreq, threads[t].de.Frequency)
    /\ threads' = [threads EXCEPT ![t].pc = "overwrite"]
    /\ UNCHANGED <<dictionaryDeletes, longestWord, library>>
    /\ ConcUnchanged

\* spell.go:187-188: s.library.store, return false
ConcOverwrite(t) ==
    /\ threads[t].pc = "overwrite"
    /\ library' = libraryStore(library, threads[t].dict, threads[t].de.Word,
                               threads[t].de)
    /\ threads' = [threads EXCEPT ![t] = [@ EXCEPT !.pc = "done", !.added = FALSE]]
    /\ UNCHANGED <<cumulativeFreq, dictionaryDeletes, longestWord>>
    /\ ConcUnchanged

\* spell.go:191: s.library.store
ConcStore(t) ==
    /\ threads[t].pc = "store"
    /\ library' = libraryStore(library, threads[t].dict, threads[t].de.Word,
                               threads[t].de)
    /\ threads' = [threads EXCEPT ![t].pc = "loadLongest"]
    /\ UNCHANGED <<cumulativeFreq, dictionaryDeletes, longestWord>>
    /\ ConcUnchanged

\* spell.go:195: wordLength > atomic.LoadUint32(&s.longestWord); when it is
\* not, the call goes on to the deletes (spell.go:201)
ConcLoadLongest(t) ==
    /\ threads[t].pc = "loadLongest"
    /\ threads' = [threads EXCEPT ![t] =
           IF Len(threads[t].de.Word) > longestWord
           THEN [@ EXCEPT !.pc = "storeLongest"]
           ELSE [@ EXCEPT !.pc = "deletes",
                          !.deletes = getDeletes(Self, threads[t].de.Word)]]
    /\ UNCHANGED <<cumulativeFreq, dictionaryDeletes, longestWord, library>>
    /\ ConcUnchanged

\* spell.go:196: atomic.StoreUint32(&s.longestWord, wordLength)
ConcStoreLongest(t) ==
    /\ threads[t].pc = "storeLongest"
    /\ longestWord' = Len(threads[t].de.Word)
    /\ threads' = [threads EXCEPT ![t] =
           [@ EXCEPT !.pc = "deletes",
                     !.deletes = getDeletes(Self, threads[t].de.Word)]]
    /\ UNCHANGED <<cumulativeFreq, dictionaryDeletes, library>>
    /\ ConcUnchanged

\* spell.go:210-215: one s.dictionaryDeletes.add of the range over deletes,
\* in whatever order the map is ranged over; return true after the last
ConcAddDelete(t) ==
    /\ threads[t].pc = "deletes"
    /\ \E h \in threads[t].deletes :
           /\ dictionaryDeletes' =
                  dictionaryDeletesAdd(dictionaryDeletes, threads[t].dict, h,
                                       deleteEntry(threads[t].de.Word))
           /\ threads' = [threads EXCEPT ![t] =
                  IF threads[t].deletes = {h}
                  THEN [@ EXCEPT !.pc = "done", !.deletes = {}, !.added = TRUE]
                  ELSE [@ EXCEPT !.deletes = @ \ {h}]]
    /\ UNCHANGED <<cumulativeFreq, longestWord, library>>
    /\ ConcUnchanged

NextConc ==
    \E t \in Threads :
        \/ \E de \in ConcEntries : ConcAddFrequency(t, de, defaultDict)
        \/ ConcLoad(t)
        \/ ConcUndo(t)
        \/ ConcOverwrite(t)
        \/ ConcStore(t)
        \/ ConcLoadLongest(t)
        \/ ConcStoreLongest(t)
        \/ ConcAddDelete(t)

SpecConc == Init /\ [][NextConc]_vars

(***************************************************************************)
(* Save (spell.go:255-281) and Load (spell.go:87-141).  The file is the    *)
(* JSON document: the two options, and under "words" one object per        *)
(* dictionary holding one object per entry.  encoding/json writes the keys *)
(* of a map in byte order, and Load walks the document in that order.      *)
(***************************************************************************)
\* s1 before s2 in byte order (strings compare as their UTF-8 bytes)
RECURSIVE bytesLess(_, _)
bytesLess(b1, b2) ==
    IF b1 = <<>> THEN b2 # <<>>
    ELSE IF b2 = <<>> THEN FALSE
    ELSE IF Head(b1) # Head(b2) THEN Head(b1) < Head(b2)
    ELSE bytesLess(Tail(b1), Tail(b2))

\* the words of a set, in the byte order of their encodings
RECURSIVE sortedWords(_)
sortedWords(S) ==
    IF S = {} THEN <<>>
    ELSE LET first == CHOOSE w \in S :
                          \A v \in S \ {w} : bytesLess(UTF8(w), UTF8(v))
         IN  <<first>> \o sortedWords(S \ {first})

\* the dictionary names in byte order: "default" < "french"
sortedDictionaries == <<defaultDict, frenchDict>>

\* an Entry as a JSON object: Frequency and WordData are omitempty
marshalEntry(e) ==
    [keys |-> {"Word"} \cup (IF e.Frequency # 0 THEN {"Frequency"} ELSE {})
                       \cup (IF e.WordData # {} THEN {"WordData"} ELSE {}),
     Frequency |-> e.Frequency, Word |-> e.Word, WordData |-> e.WordData]

\* mapstructure.Decode into Entry{}: a key that is absent leaves the zero value
decodeEntry(j) ==
    [Frequency |-> IF "Frequency" \in j.keys THEN j.Frequency
                   ELSE ZeroEntry.Frequency,
     Word |-> IF "Word" \in j.keys THEN j.Word ELSE ZeroEntry.Word,
     WordData |-> IF "WordData" \in j.keys THEN j.WordData
                  ELSE ZeroEntry.WordData]

\* one dictionary as a JSON object: its entries in the order of their keys
marshalDictionary(d) ==
    LET ws == sortedWords(DOMAIN d)
    IN  [i \in 1..Len(ws) |-> [key |-> ws[i], value |-> marshalEntry(d[ws[i]])]]

\* Save: the document written
SaveOp(s) ==
    LET names == SelectSeq(sortedDictionaries, LAMBDA n : n \in DOMAIN s.library)
    IN  [options |-> [editDistance |-> s.MaxEditDistance,
                      prefixLength |-> s.PrefixLength],
         words |-> [i \in 1..Len(names) |->
                       [key |-> names[i],
                        value |-> marshalDictionary(s.library[names[i]])]]]

\* the inner ForEach of Load: every entry of one dictionary object goes
\* through s.AddEntry(e), with no option
RECURSIVE loadEntries(_, _)
loadEntries(s, entries) ==
    IF entries = <<>> THEN s
    ELSE loadEntries(AddEntryOp(s, decodeEntry(Head(entries).value), defaultDict).s,
                     Tail(entries))

\* the outer ForEach of Load, over the dictionary objects
RECURSIVE loadWords(_, _)
loadWords(s, dictionaries) ==
    IF dictionaries = <<>> THEN s
    ELSE loadWords(loadEntries(s, Head(dictionaries).value), Tail(dictionaries))

\* Load: a new Speller, the entries replayed, then the two options
LoadOp(file) ==
    [loadWords(New, file.words) EXCEPT
        !.MaxEditDistance = file.options.editDistance,
        !.PrefixLength = file.options.prefixLength]

\* the values the caller gives the exported fields of Spell
EditDistances == 0..(MaxEd + 1)

PrefixLengths == {1, defaultPrefixLength}

\* the caller assigns the exported fields MaxEditDistance and PrefixLength
\* (spell.go:50-54) of a Speller that has no word yet
SetOptions(med, pl) ==
    /\ Running
    /\ nCalls = 0
    /\ MaxEditDistance' = med
    /\ PrefixLength' = pl
    /\ UNCHANGED <<cumulativeFreq, dictionaryDeletes, longestWord, library, ret,
                   nCalls, removedWords, threads>>

\* Save; the Speller is left as it is, and the model makes no call on it after
Save ==
    /\ Running
    /\ ret' = [op |-> "Save", file |-> SaveOp(Self)]
    /\ UNCHANGED <<MaxEditDistance, PrefixLength, cumulativeFreq, dictionaryDeletes,
                   longestWord, library, nCalls, removedWords, threads>>

\* Load of the file saved: ret.s is the Speller that Load returns
Load ==
    /\ ret.op = "Save"
    /\ ret' = [op |-> "Load", s |-> LoadOp(ret.file)]
    /\ UNCHANGED <<MaxEditDistance, PrefixLength, cumulativeFreq, dictionaryDeletes,
                   longestWord, library, nCalls, removedWords, threads>>

NextPersist ==
    \/ \E med \in EditDistances, pl \in PrefixLengths : SetOptions(med, pl)
    \/ \E de \in Entries, dict \in DictNames : AddEntry(de, dict)
    \/ Save
    \/ Load

SpecPersist == Init /\ [][NextPersist]_vars

(***************************************************************************)
(* Segment (spell.go:664-794).  A probability is a sum of base-10          *)
(* logarithms; it is kept exactly, as the logarithm of                     *)
(* num * 10^exp / cumulativeFreq^k, or as minus infinity (the logarithm of *)
(* a zero frequency).                                                      *)
(***************************************************************************)
\* the probability 0.0 of a zero-valued composition
zeroProbability == [ninf |-> FALSE, num |-> 1, exp |-> 0, k |-> 0]

\* + math.Log10(float64(freq) / cumulativeFreq)
addKnown(p, freq) ==
    IF freq = 0 THEN [p EXCEPT !.ninf = TRUE]
    ELSE [p EXCEPT !.num = @ * freq, !.k = @ + 1]

\* + math.Log10(10.0 / (cumulativeFreq * math.Pow(10.0, partLen)))
addUnknown(p, partLen) == [p EXCEPT !.exp = @ + 1 - partLen, !.k = @ + 1]

RECURSIVE pow(_, _)
pow(b, n) == IF n = 0 THEN 1 ELSE b * pow(b, n - 1)

\* p1 < p2, the comparison of two float64 sums
probabilityLess(p1, p2, cf) ==
    IF p1.ninf THEN ~p2.ninf
    ELSE IF p2.ninf THEN FALSE
    ELSE LET e == min(p1.exp, p2.exp)
             k == min(p1.k, p2.k)
         IN  p1.num * pow(10, p1.exp - e) * pow(cf, p2.k - k)
                 < p2.num * pow(10, p2.exp - e) * pow(cf, p1.k - k)

\* unicode.Is(unicode.White_Space, rune(b)) for a byte b
isWhiteSpace(b) == b \in {9, 10, 11, 12, 13, Space, 133, 160}

\* strings.Split(str, " ")
RECURSIVE splitFrom(_, _)
splitFrom(str, piece) ==
    IF str = <<>> THEN <<piece>>
    ELSE IF Head(str) = Space THEN <<piece>> \o splitFrom(Tail(str), <<>>)
    ELSE splitFrom(Tail(str), Append(piece, Head(str)))

stringsSplit(str) == splitFrom(str, <<>>)

\* defaultSegmentParams, and SegmentLookupOpts which replaces the options
defaultSegmentParams == [lookupOptions |-> [NoOptions EXCEPT !.SuggestionLevel = LevelBest]]

\* F of the value of v: v is evaluated once, before F is applied to it
Strict(F(_), v) == CHOOSE r \in {F(x) : x \in {v}} : TRUE

zeroComposition ==
    [segmentedString |-> <<>>, correctedString |-> <<>>, distanceSum |-> 0,
     probability |-> zeroProbability]

\* the end of the body of the loop over j, from destinationIdx on: part1 is
\* the part before its spaces are taken out, part the part after, found what
\* Lookup returned for it
segmentCompose(st, i, j, part1, part, separatorLength, found, longest, cf, arraySize) ==
    LET some  == Len(found.results) > 0
        topResult == IF some THEN found.results[1].Entry.Word ELSE part
        topEd == (Len(part1) - Len(part))
                     + (IF some THEN found.results[1].Distance ELSE Len(part))
        cs == st.compositions
        destinationIdx == (j + st.circularIdx) % arraySize
        prev == cs[st.circularIdx]
        dest == cs[destinationIdx]
        sum  == IF some THEN addKnown(prev.probability, found.results[1].Entry.Frequency)
                ELSE addUnknown(prev.probability, Len(part))
    IN  IF found.err THEN [st EXCEPT !.outcome = "error"]
        ELSE IF i = 0
        THEN [st EXCEPT !.compositions[destinationIdx] =
                 [segmentedString |-> part, correctedString |-> topResult,
                  distanceSum |-> topEd,
                  probability |-> IF some
                      THEN addKnown(zeroProbability, found.results[1].Entry.Frequency)
                      ELSE addUnknown(zeroProbability, Len(part))]]
        ELSE IF \/ j = longest
                \/ /\ \/ prev.distanceSum + topEd = dest.distanceSum
                      \/ prev.distanceSum + separatorLength + topEd = dest.distanceSum
                   /\ probabilityLess(dest.probability, sum, cf)
                \/ prev.distanceSum + separatorLength + topEd < dest.distanceSum
        THEN [st EXCEPT !.compositions[destinationIdx] =
                 [segmentedString |-> prev.segmentedString \o <<Space>> \o part,
                  correctedString |-> prev.correctedString \o <<Space>> \o topResult,
                  distanceSum |-> prev.distanceSum + separatorLength + topEd,
                  probability |-> sum]]
        ELSE st

\* the body of the loop over j, for one i and one j; st holds compositions,
\* circularIdx and whether an error ended the call
segmentPart(s, input, lookupOptions, st, i, j, longest, cf, arraySize) ==
    LET part0 == substring(input, i, i + j)
        white == isWhiteSpace(UTF8(part0)[1])
        part1 == IF white THEN substring(input, i + 1, i + j) ELSE part0
        part  == SelectSeq(part1, LAMBDA c : c # Space)
    IN  Strict(LAMBDA found :
                   segmentCompose(st, i, j, part1, part, IF white THEN 0 ELSE 1,
                                  found, longest, cf, arraySize),
               LookupOp(s, part, lookupOptions))

\* the loop over j, from j on
RECURSIVE segmentParts(_, _, _, _, _, _, _, _, _, _)
segmentParts(s, input, lookupOptions, st, i, j, jMax, longest, cf, arraySize) ==
    IF j > jMax \/ st.outcome # "running" THEN st
    ELSE Strict(LAMBDA st1 :
                    segmentParts(s, input, lookupOptions, st1, i, j + 1, jMax,
                                 longest, cf, arraySize),
                segmentPart(s, input, lookupOptions, st, i, j, longest, cf,
                            arraySize))

\* circularIdx++, back to 0 at arraySize
nextCircularIdx(st, arraySize) ==
    [st EXCEPT !.circularIdx = IF @ + 1 = arraySize THEN 0 ELSE @ + 1]

\* the loop over i, from i on
RECURSIVE segmentFrom(_, _, _, _, _, _, _, _)
segmentFrom(s, input, lookupOptions, st, i, longest, cf, arraySize) ==
    IF i >= Len(input) \/ st.outcome # "running" THEN st
    ELSE Strict(LAMBDA st1 :
                    segmentFrom(s, input, lookupOptions,
                                nextCircularIdx(st1, arraySize), i + 1, longest, cf,
                                arraySize),
                segmentParts(s, input, lookupOptions, st, i, 1,
                             min(Len(input) - i, longest), longest, cf, arraySize))

\* the error values: none, the one of a refused lookup option, and the two of
\* Segment on a dictionary with nothing to segment with
NoError == "nil"

PrefixLengthError == "prefix length must be greater than 0"

LongestWordError == "longest word in dictionary has zero length"

CumulativeFreqError == "cumulative frequency is zero"

\* Segment returning (nil, err)
segmentError(err) == [outcome |-> "error", err |-> err, Distance |-> 0, Segments |-> <<>>]

\* preconditions that test the longest word only
emptyDictionaryErrorLongestOnly(s) ==
    IF s.longestWord = 0 THEN LongestWordError ELSE NoError

\* the preconditions of Segment: the error returned, if any
emptyDictionaryError(s) ==
    IF s.longestWord = 0 THEN LongestWordError
    ELSE IF s.cumulativeFreq = U64Zero THEN CumulativeFreqError
    ELSE NoError

\* the segments of the composition chosen: a panic when correctedWords is
\* longer than segmentedWords
segmentsOf(s, c) ==
    LET segmentedWords == stringsSplit(c.segmentedString)
        correctedWords == stringsSplit(c.correctedString)
    IN  IF Len(correctedWords) > Len(segmentedWords)
        THEN [outcome |-> "panic", err |-> NoError, Distance |-> 0, Segments |-> <<>>]
        ELSE [outcome |-> "result", err |-> NoError, Distance |-> c.distanceSum,
              Segments |-> [n \in 1..Len(correctedWords) |->
                  [Input |-> segmentedWords[n], Word |-> correctedWords[n],
                   Entry |-> GetEntryOp(s, correctedWords[n], defaultDict)]]]

\* the end of Segment: st is the state the loops ended in
segmentResult(s, st) ==
    IF st.outcome = "error"
    THEN segmentError(PrefixLengthError)
    ELSE IF st.circularIdx \notin DOMAIN st.compositions
    THEN [outcome |-> "panic", err |-> NoError, Distance |-> 0, Segments |-> <<>>]
    ELSE segmentsOf(s, st.compositions[st.circularIdx])

\* Segment: outcome is "result", "error" (an error value is returned) or
\* "panic" (an index out of range)
SegmentOp(s, input, lookupOptions) ==
    LET longest == s.longestWord
        cf == U64ToNat(s.cumulativeFreq)
        arraySize == min(Len(input), longest)
        st0 == [compositions |-> [n \in 0..(arraySize - 1) |-> zeroComposition],
                circularIdx |-> -1, outcome |-> "running"]
    IN  IF emptyDictionaryError(s) # NoError
        THEN segmentError(emptyDictionaryError(s))
        ELSE Strict(LAMBDA st : segmentResult(s, st),
                    segmentFrom(s, input, lookupOptions, st0, 0, longest, cf,
                                arraySize))

\* the words stored and the inputs segmented: these may hold spaces
SegChars == Chars \cup {Space}

SegWords == StringsUpTo(SegChars, MaxSegWordLen)

SegInputs == StringsUpTo(SegChars, MaxInputLen)

SegEntries == [Frequency : Freqs, Word : SegWords, WordData : {{}}]

\* the lookup options given to Segment: none (the default, LevelBest), or
\* SegmentLookupOpts with EditDistance(0) or with the refused PrefixLength(0)
SegmentOptions ==
    {defaultSegmentParams.lookupOptions, [NoOptions EXCEPT !.EditDistance = 0],
     [NoOptions EXCEPT !.PrefixLength = 0]}

Segment(input, lookupOptions) ==
    /\ Running
    /\ LET r == SegmentOp(Self, input, lookupOptions)
       IN  ret' = [op |-> "Segment", input |-> input, opts |-> lookupOptions,
                   outcome |-> r.outcome, err |-> r.err, Distance |-> r.Distance,
                   Segments |-> r.Segments]
    /\ UNCHANGED <<MaxEditDistance, PrefixLength, cumulativeFreq, dictionaryDeletes,
                   longestWord, library, nCalls, removedWords, threads>>

NextSegment ==
    \/ \E de \in SegEntries : AddEntry(de, defaultDict)
    \/ \E word \in SegWords : RemoveEntry(word, defaultDict)
    \/ \E input \in SegInputs, lookupOptions \in SegmentOptions :
           Segment(input, lookupOptions)

SpecSegment == Init /\ [][NextSegment]_vars

(***************************************************************************)
(* Calls on two dictionaries, with entries that carry metadata or none.    *)
(***************************************************************************)
ShortWords == StringsUpTo(Chars, MaxShortWordLen)

\* the WordData given to AddEntry: none, or one key with its value
WordDatas == {{}, {<<"pos", "noun">>}}

MetaEntries == [Frequency : Freqs, Word : ShortWords, WordData : WordDatas]

\* the options given to Lookup: a suggestion level or none, on a dictionary
DictLookupOptions ==
    {[NoOptions EXCEPT !.SuggestionLevel = l, !.DictionaryName = d] :
         l \in {NotGiven, LevelClosest, LevelAll}, d \in DictNames}

NextDicts ==
    \/ \E de \in MetaEntries, dict \in DictNames : AddEntry(de, dict)
    \/ \E word \in ShortWords, dict \in DictNames : RemoveEntry(word, dict)
    \/ \E word \in ShortWords, dict \in DictNames : GetEntry(word, dict)
    \/ \E input \in ShortWords, opts \in DictLookupOptions : Lookup(input, opts)

SpecDicts == Init /\ [][NextDicts]_vars

(***************************************************************************)
(* Up to MaxDeepOps calls of AddEntry and RemoveEntry on the default       *)
(* dictionary, then a Lookup.                                              *)
(***************************************************************************)
ShortEntries == [Frequency : Freqs, Word : ShortWords, WordData : {{}}]

NextDeep ==
    \/ \E de \in ShortEntries : nCalls < MaxDeepOps /\ AddEntryCall(de, defaultDict)
    \/ \E word \in ShortWords : nCalls < MaxDeepOps /\ RemoveEntryCall(word, defaultDict)
    \/ \E input \in ShortWords, opts \in LookupOptions : Lookup(input, opts)

SpecDeep == Init /\ [][NextDeep]_vars

\* every goroutine has returned from its call
AllDone == \A t \in Threads : threads[t].pc = "done"

\* the sum of a function's values over a set of its arguments
RECURSIVE SumOver(_, _)
SumOver(f, S) ==
    IF S = {} THEN 0
    ELSE LET x == CHOOSE x \in S : TRUE IN f[x] + SumOver(f, S \ {x})

\* the sum of the frequencies of the entries stored, over all dictionaries
StoredFrequency ==
    SumOver([d \in DOMAIN library |->
                SumOver([w \in DOMAIN library[d] |-> library[d][w].Frequency],
                        DOMAIN library[d])],
            DOMAIN library)

(***************************************************************************)
(* C3: after AddEntry calls only, cumulativeFreq is the sum of the         *)
(* frequencies of the entries stored (re-adds of a stored word with        *)
(* another frequency included).                                            *)
(***************************************************************************)
C3_CumulativeIsSum == cumulativeFreq = U64FromNat(StoredFrequency)

(***************************************************************************)
(* C6: the value GetLongestWord returns never decreases, whatever the      *)
(* interleaving of concurrent AddEntry calls.                              *)
(***************************************************************************)
C6_LongestWordNeverDecreases == [][longestWord' >= longestWord]_vars

\* C6, the other half: once every call has returned, longestWord is at least
\* the length of every stored word
C6_LongestWordCoversStored ==
    AllDone => \A w \in Stored(defaultDict) : longestWord >= Len(w)

\* the lookup options that are not refused, on dictionary dict
OptionsOn(dict) ==
    {[o EXCEPT !.DictionaryName = dict] : o \in {o \in LookupOptions : ~lookupOptsError(o)}}

(***************************************************************************)
(* C5: the Speller that Load returns for a saved file gives, for every     *)
(* stored word of every dictionary of the saved Speller and under the same *)
(* options, the Lookup results that the saved Speller gives.               *)
(***************************************************************************)
C5_LoadedLooksUpTheSame ==
    ret.op = "Load" =>
        \A dict \in DictNames : \A w \in Stored(dict) : \A o \in OptionsOn(dict) :
            LookupOp(ret.s, w, o) = LookupOp(Self, w, o)

(***************************************************************************)
(* C8: Segment on a Speller with longestWord > 0 and cumulativeFreq > 0    *)
(* returns a result or an error value for every input, the empty string    *)
(* included: no index is out of range.                                     *)
(***************************************************************************)
C8_SegmentNeverPanics ==
    (ret.op = "Segment" /\ longestWord > 0 /\ cumulativeFreq # U64Zero)
        => ret.outcome # "panic"

\* the ways to cut str into chunks that are not empty
RECURSIVE Cuts(_)
Cuts(str) ==
    IF str = <<>> THEN {<<>>}
    ELSE UNION {{<<SubSeq(str, 1, n)>> \o c :
                     c \in Cuts(SubSeq(str, n + 1, Len(str)))} : n \in 1..Len(str)}

\* the splits of str into stored words
StoredSplits(str) ==
    {c \in Cuts(str) : \A n \in 1..Len(c) : c[n] \in Stored(defaultDict)}

\* the input of the last Segment, called with no option, is the concatenation
\* of one or more stored words of frequency > 0 and has no other split into
\* stored words (the empty word, when stored, gives every input other splits)
SegmentedWords ==
    /\ ret.op = "Segment"
    /\ ret.opts = defaultSegmentParams.lookupOptions
    /\ ret.input # <<>>
    /\ <<>> \notin Stored(defaultDict)
    /\ Cardinality(StoredSplits(ret.input)) = 1
    /\ \A c \in StoredSplits(ret.input) : \A n \in 1..Len(c) :
           library[defaultDict][c[n]].Frequency > 0

(***************************************************************************)
(* C7: Segment of the concatenation of stored words w1..wk, each of        *)
(* frequency > 0, that has no other split into stored words, returns k     *)
(* segments whose Word and Input are w1..wk in order.                      *)
(***************************************************************************)
C7_SegmentsAreTheWords ==
    SegmentedWords =>
        \A c \in StoredSplits(ret.input) :
            /\ ret.outcome = "result"
            /\ Len(ret.Segments) = Len(c)
            /\ \A n \in 1..Len(c) :
                   ret.Segments[n].Word = c[n] /\ ret.Segments[n].Input = c[n]

\* the step is a call of AddEntry
AddEntryStep == ret'.op = "AddEntry" /\ nCalls' = nCalls + 1

\* the step is a call of RemoveEntry
RemoveEntryStep == ret'.op = "RemoveEntry" /\ nCalls' = nCalls + 1

(***************************************************************************)
(* C11: AddEntry returns true exactly when the word was absent from the    *)
(* dictionary; after it GetEntry returns the entry given (frequency and    *)
(* metadata), and a call that returns false leaves dictionaryDeletes and   *)
(* longestWord as they were.                                               *)
(***************************************************************************)
C11_AddEntryReportsAndReplaces ==
    [][AddEntryStep =>
          /\ ret'.added = (ret'.de.Word \notin Stored(ret'.dict))
          /\ libraryLoad(library', ret'.dict, ret'.de.Word)
                 = [definition |-> ret'.de, exists |-> TRUE]
          /\ ~ret'.added => /\ dictionaryDeletes' = dictionaryDeletes
                            /\ longestWord' = longestWord]_vars

\* a re-add that brings metadata and a frequency has been made
C11_Witness ==
    /\ ret.op = "AddEntry" /\ ~ret.added
    /\ ret.de.WordData # {} /\ ret.de.Frequency > 0
    /\ GetEntryOp(Self, ret.de.Word, ret.dict).definition = ret.de

(***************************************************************************)
(* C12: RemoveEntry returns true exactly when the word was stored in the   *)
(* dictionary at the call; after it GetEntry finds no entry, and another   *)
(* RemoveEntry of the word returns false.                                  *)
(***************************************************************************)
C12_RemoveEntryReports ==
    [][RemoveEntryStep =>
          /\ ret'.removed = (ret'.word \in Stored(ret'.dict))
          /\ ~libraryLoad(library', ret'.dict, ret'.word).exists
          /\ ~libraryRemove(library', ret'.dict, ret'.word).removed]_vars

\* a word that was added and removed has been removed again, with false returned
C12_Witness ==
    /\ ret.op = "RemoveEntry" /\ ~ret.removed
    /\ ret.word \in EverAdded(ret.dict)
    /\ ret.word \notin Stored(ret.dict)

\* dictionary dict of the library l, of the delete index dd
EntriesOf(l, dict) == IF dict \in DOMAIN l THEN l[dict] ELSE EmptyMap

BucketsOf(dd, dict) == IF dict \in DOMAIN dd THEN dd[dict] ELSE EmptyMap

(***************************************************************************)
(* C13: dictionaries are isolated.  A Lookup on a dictionary returns words *)
(* stored in that dictionary only, GetEntry finds a word only where it is  *)
(* stored, and AddEntry or RemoveEntry on one dictionary leaves the        *)
(* entries and the delete buckets of every other dictionary as they were.  *)
(***************************************************************************)
C13_DictionariesAreIsolated ==
    [][/\ (ret'.op = "Lookup" /\ ~ret'.err) =>
              \A n \in 1..Len(ret'.results) :
                  ret'.results[n].Entry.Word
                      \in Stored(lookupParams(Self, ret'.opts).dictOpts)
       /\ (ret'.op = "GetEntry" /\ ret'.exists) => ret'.word \in Stored(ret'.dict)
       /\ (AddEntryStep \/ RemoveEntryStep) =>
              \A other \in DictNames \ {ret'.dict} :
                  /\ EntriesOf(library', other) = EntriesOf(library, other)
                  /\ BucketsOf(dictionaryDeletes', other)
                         = BucketsOf(dictionaryDeletes, other)]_vars

\* the last Lookup was asked for edit distance 0
EditDistanceZero ==
    \/ ret.opts.EditDistance = 0
    \/ ret.opts.EditDistance = NotGiven /\ MaxEditDistance = 0

(***************************************************************************)
(* C14: with edit distance 0 Lookup returns the input alone, at distance   *)
(* 0, when the input is stored, and nothing when it is not, whatever the   *)
(* suggestion level.                                                       *)
(***************************************************************************)
C14_DistanceZeroIsExact ==
    (Looked /\ EditDistanceZero) =>
        ret.results = IF ret.input \in Stored(defaultDict)
                      THEN <<[Distance |-> 0, Entry |-> library[defaultDict][ret.input]]>>
                      ELSE <<>>

\* a stored input looked up with edit distance 0 and level All, while another
\* stored word is one edit away
C14_Witness ==
    /\ Looked /\ EditDistanceZero
    /\ ret.opts.SuggestionLevel = LevelAll
    /\ ret.input \in Stored(defaultDict)
    /\ \E w \in Stored(defaultDict) : DLDistance(ret.input, w) = 1
    /\ Len(ret.results) = 1

(***************************************************************************)
(* C15: when the input is not stored, the suggestions of a Lookup with     *)
(* level Closest all have one distance, each is a stored word at that      *)
(* distance from the input, and every stored word at that distance is      *)
(* among them.                                                             *)
(***************************************************************************)
C15_ClosestKeepsAllTies ==
    (Looked /\ LookedParams.suggestionLevel = LevelClosest
            /\ ret.input \notin Stored(LookedParams.dictOpts)
            /\ Len(ret.results) > 0)
    => LET d == ret.results[1].Distance
       IN  /\ \A k \in 1..Len(ret.results) :
                  /\ ret.results[k].Distance = d
                  /\ ret.results[k].Entry.Word \in Stored(LookedParams.dictOpts)
                  /\ InputDistance(ret.results[k].Entry.Word) = d
           /\ \A w \in Stored(LookedParams.dictOpts) :
                  InputDistance(w) = d => w \in ResultWords

\* the distance asked of the last Lookup
AskedDistance ==
    IF ret.opts.EditDistance # NotGiven THEN ret.opts.EditDistance ELSE MaxEditDistance

(***************************************************************************)
(* C16: with level All and the default sort function every suggestion has  *)
(* a distance from 0 to the edit distance asked for, and the list is in    *)
(* ascending order of distance, in descending order of frequency where     *)
(* distances are equal.                                                    *)
(***************************************************************************)
C16_AllIsBoundedAndSorted ==
    (Looked /\ ret.opts.SuggestionLevel = LevelAll) =>
        /\ \A k \in 1..Len(ret.results) :
               ret.results[k].Distance \in 0..AskedDistance
        /\ \A k \in 1..(Len(ret.results) - 1) :
               \/ ret.results[k].Distance < ret.results[k + 1].Distance
               \/ /\ ret.results[k].Distance = ret.results[k + 1].Distance
                  /\ ret.results[k].Entry.Frequency >= ret.results[k + 1].Entry.Frequency

\* three suggestions: the stored input, and two words at one distance from it
\* added in ascending order of frequency
C16_Witness ==
    /\ Looked /\ ret.opts.SuggestionLevel = LevelAll
    /\ Len(ret.results) = 3
    /\ ret.results[1].Distance = 0
    /\ ret.results[2].Distance = ret.results[3].Distance
    /\ ret.results[2].Entry.Frequency > ret.results[3].Entry.Frequency


\* the empty word is the only word stored, and the input of the last Lookup
\* has from 1 to the asked edit distance code points
OnlyEmptyStored ==
    /\ Looked
    /\ Stored(LookedParams.dictOpts) = {<<>>}
    /\ Len(ret.input) \in 1..AskedDistance

(***************************************************************************)
(* C17: when "" is the only stored word, a Lookup of an input of k code    *)
(* points, 1 <= k <= edit distance, returns exactly one suggestion, with   *)
(* word "" and distance k.                                                 *)
(***************************************************************************)
C17_EmptyWordIsSuggested ==
    OnlyEmptyStored =>
        /\ Len(ret.results) = 1
        /\ ret.results[1].Entry.Word = <<>>
        /\ ret.results[1].Distance = Len(ret.input)

\* the same, in the states where no removed word has left records behind
C17_WithoutStaleRecords ==
    (OnlyEmptyStored /\ EverAdded(LookedParams.dictOpts) = Stored(LookedParams.dictOpts))
        => /\ Len(ret.results) = 1
           /\ ret.results[1].Entry.Word = <<>>
           /\ ret.results[1].Distance = Len(ret.input)


\* the state of the Speller
SpellerState ==
    <<MaxEditDistance, PrefixLength, cumulativeFreq, dictionaryDeletes, longestWord,
      library>>

(***************************************************************************)
(* C18: Segment returns an error and changes no state of the Speller when  *)
(* longestWord is 0 or cumulativeFreq is 0 at the call, and in every       *)
(* other state it does not return one of the two empty-dictionary errors.  *)
(***************************************************************************)
C18_SegmentRefusesEmptyDictionary ==
    [][ret'.op = "Segment" =>
           /\ UNCHANGED SpellerState
           /\ (longestWord = 0 \/ cumulativeFreq = U64Zero)
                  => ret'.outcome = "error"
           /\ (longestWord = 0 \/ cumulativeFreq = U64Zero)
                  <=> ret'.err \in {LongestWordError, CumulativeFreqError}]_vars

\* Segment refused on a dictionary that stores a word of one code point or
\* more, all frequencies being 0
C18_Witness ==
    /\ ret.op = "Segment"
    /\ ret.err = CumulativeFreqError
    /\ longestWord > 0
    /\ Stored(defaultDict) # {}


\* the strings obtained from str by deleting n code points
RECURSIVE Deletions(_, _)
Deletions(str, n) ==
    IF n = 0 THEN {str}
    ELSE UNION {Deletions(removeChar(str, i), n - 1) : i \in 0..(Len(str) - 1)}

\* the first PrefixLength code points of word
PrefixOf(word) == SubSeq(word, 1, min(Len(word), PrefixLength))

\* the hashes of the strings obtained from the prefix of word by deleting
\* from lo to hi code points
DeleteHashes(word, lo, hi) ==
    {getStringHash(x) : x \in UNION {Deletions(PrefixOf(word), n) : n \in lo..hi}}

\* the hashes under which a record of word is filed in dictionary dict
FiledUnder(dict, word) ==
    IF dict \in DOMAIN dictionaryDeletes
    THEN {h \in DOMAIN dictionaryDeletes[dict] :
              \E k \in 1..Len(dictionaryDeletes[dict][h]) :
                  dictionaryDeletes[dict][h][k].str = word}
    ELSE {}

(***************************************************************************)
(* C19: whatever PrefixLength >= 1 and MaxEditDistance >= 0, the delete    *)
(* set of a word added is the set of the hashes of its prefix and of every *)
(* string obtained from the prefix by deleting from 1 to MaxEditDistance   *)
(* code points: the empty string is among them when the prefix is short    *)
(* enough, and none but the prefix when MaxEditDistance is 0.              *)
(***************************************************************************)
C19_DeleteSetIsExact ==
    \A dict \in DOMAIN library : \A word \in DOMAIN library[dict] :
        /\ getDeletes(Self, word) = DeleteHashes(word, 0, MaxEditDistance)
        /\ FiledUnder(dict, word) = DeleteHashes(word, 0, MaxEditDistance)

\* what is computed: the deletions of one code point are there even when
\* MaxEditDistance is 0, and the empty string is there only as the prefix
C19_DeleteSetComputed ==
    \A dict \in DOMAIN library : \A word \in DOMAIN library[dict] :
        /\ getDeletes(Self, word) =
               {getStringHash(PrefixOf(word))} \cup
               (DeleteHashes(word, 1, IF MaxEditDistance = 0 THEN 1 ELSE MaxEditDistance)
                    \ {getStringHash(<<>>)})
        /\ FiledUnder(dict, word) = getDeletes(Self, word)


(***************************************************************************)
(* C20: after any sequence of AddEntry and RemoveEntry calls, a remove     *)
(* followed by a re-add of the same word included, every hash of the       *)
(* delete set of a stored word has a bucket in the dictionary of the word  *)
(* that holds a record of the word.                                        *)
(***************************************************************************)
C20_StoredWordsAreFiled ==
    \A dict \in DOMAIN library : \A word \in DOMAIN library[dict] :
        \A h \in getDeletes(Self, word) :
            /\ dictionaryDeletesLoad(dictionaryDeletes, dict, h).exists
            /\ \E k \in 1..Len(dictionaryDeletes[dict][h]) :
                   dictionaryDeletes[dict][h][k].str = word

\* a word of two code points added, removed and added again: each of its
\* buckets holds two records of it
C20_Witness ==
    /\ nCalls = 3
    /\ ret.op = "AddEntry" /\ ret.added
    /\ Len(ret.de.Word) = 2
    /\ ret.de.Word \in Stored(defaultDict)
    /\ \A h \in getDeletes(Self, ret.de.Word) :
           Len(SelectSeq(dictionaryDeletes[defaultDict][h],
                         LAMBDA e : e.str = ret.de.Word)) = 2


(***************************************************************************)
(* Lookups on a Speller whose prefix is shorter than its words: the prefix *)
(* length is set on the Speller or given as an option of the Lookup.       *)
(***************************************************************************)
ShortPrefixLengths == {1, 2}

PrefixLookupOptions ==
    [EditDistance : {NotGiven, 1}, PrefixLength : {NotGiven} \cup ShortPrefixLengths,
     SuggestionLevel : {NotGiven, LevelClosest, LevelAll},
     DictionaryName : {NoName}]

NextPrefix ==
    \/ \E med \in 1..MaxEd, pl \in ShortPrefixLengths : SetOptions(med, pl)
    \/ \E de \in Entries : AddEntry(de, defaultDict)
    \/ \E input \in Inputs, opts \in PrefixLookupOptions : Lookup(input, opts)

SpecPrefix == Init /\ [][NextPrefix]_vars

\* the suggestions of the last Lookup other than the exact match
NonExact ==
    {k \in 1..Len(ret.results) :
         ~(ret.results[k].Distance = 0 /\ ret.results[k].Entry.Word = ret.input)}

(***************************************************************************)
(* C21: with the default distance function every suggestion of a Lookup    *)
(* other than the exact match carries the Damerau-Levenshtein distance     *)
(* between the whole input and the whole suggested word, and that distance *)
(* is from 1 to the edit distance asked for.                               *)
(***************************************************************************)
C21_DistanceIsOfWholeWords ==
    Looked => \A k \in NonExact :
        /\ ret.results[k].Distance = InputDistance(ret.results[k].Entry.Word)
        /\ ret.results[k].Distance \in 1..AskedDistance

\* the same, in the states where no removed word has left records behind; it
\* holds under SpecPrefix too, where the prefix is shorter than the words
C21_WithoutStaleRecords ==
    (Looked /\ EverAdded(LookedParams.dictOpts) = Stored(LookedParams.dictOpts))
        => \A k \in NonExact :
               /\ ret.results[k].Distance = InputDistance(ret.results[k].Entry.Word)
               /\ ret.results[k].Distance \in 1..AskedDistance


\* the entries of dictionary dict of the Speller that Load returned
LoadedEntries(dict) ==
    IF dict \in DOMAIN ret.s.library THEN ret.s.library[dict] ELSE EmptyMap

\* every entry saved is found by GetEntry on the loaded Speller, equal and in
\* its dictionary, and the loaded Speller holds no entry in a dictionary that
\* did not hold it
LoadedAsSaved ==
    /\ \A dict \in DOMAIN library : \A w \in DOMAIN library[dict] :
           GetEntryOp(ret.s, w, dict) = [definition |-> library[dict][w], exists |-> TRUE]
    /\ \A dict \in DictNames : DOMAIN LoadedEntries(dict) \subseteq Stored(dict)

(***************************************************************************)
(* C22: Load replays every saved entry into the dictionary it was saved    *)
(* under: for every dictionary d and word w of the saved Speller,          *)
(* GetEntry(w, d) on the loaded Speller returns an equal entry, and no     *)
(* entry is in a dictionary that did not hold it when saved.               *)
(***************************************************************************)
C22_LoadKeepsDictionaries == ret.op = "Load" => LoadedAsSaved

\* the same for a saved Speller that has entries in the default dictionary only
C22_DefaultDictionaryOnly ==
    (ret.op = "Load" /\ DOMAIN library \subseteq {defaultDict}) => LoadedAsSaved


\* both goroutines have returned from AddEntry of one word, which no
\* dictionary held when they were called
SameWordAdded ==
    /\ AllDone
    /\ \A t \in Threads : threads[t].de.Word = threads[1].de.Word

\* the records of word in the bucket of hash h of the default dictionary
RecordsOf(word, h) ==
    IF dictionaryDeletesLoad(dictionaryDeletes, defaultDict, h).exists
    THEN SelectSeq(dictionaryDeletes[defaultDict][h], LAMBDA e : e.str = word)
    ELSE <<>>

\* exactly one of the calls returned true
OneAdded == Cardinality({t \in Threads : threads[t].added}) = 1

\* each bucket of the word holds one record of it
FiledOnce ==
    \A h \in getDeletes(Self, threads[1].de.Word) :
        Len(RecordsOf(threads[1].de.Word, h)) = 1

\* cumulativeFreq is the frequency of the entry stored
GrownByStored ==
    cumulativeFreq = U64FromNat(library[defaultDict][threads[1].de.Word].Frequency)

(***************************************************************************)
(* C23: when two AddEntry calls for one word that the dictionary does not  *)
(* hold run concurrently on one Speller, exactly one of them returns true, *)
(* the delete record of the word is appended once to each of its buckets,  *)
(* and after both cumulativeFreq has grown by the frequency of the entry   *)
(* that is stored.                                                         *)
(***************************************************************************)
C23_ConcurrentAddsAddOnce ==
    SameWordAdded => (OneAdded /\ FiledOnce /\ GrownByStored)

\* the three parts of C23, each on its own
C23_OneAdded == SameWordAdded => OneAdded

C23_FiledOnce == SameWordAdded => FiledOnce

C23_GrownByStored == SameWordAdded => GrownByStored

\* when one call found the word stored by the other (it returned false), the
\* word is filed once, and cumulativeFreq is the frequency stored if the two
\* entries have one frequency
C23_WhenOneFindsTheOther ==
    (SameWordAdded /\ OneAdded) =>
        /\ FiledOnce
        /\ threads[1].de.Frequency = threads[2].de.Frequency => GrownByStored

=============================================================================
